---- MODULE Spec2Model ----
(***************************************************************************)
(* HeapAudioBuffer (src/src/wasm-audio-helper.ts): a wrapper that keeps    *)
(* one allocation on the WASM heap of an Emscripten module and hands out   *)
(* one Float32Array view per audio channel.                                *)
(*                                                                         *)
(* The model holds the private fields of one instance, the log of the      *)
(* calls the instance made into the module (_malloc, _free), and the last  *)
(* method call with the value it returned.                                 *)
(***************************************************************************)
EXTENDS Integers, Naturals, Sequences, FiniteSets, TLC

\* ---- program constants -------------------------------------------------
BYTES_PER_SAMPLE == 4
BYTES_PER_UNIT == 2
MAX_CHANNEL_COUNT == 32
RENDER_QUANTUM_FRAMES == 128

\* ---- bounds of the model -----------------------------------------------
\* largest small frame length tried (RENDER_QUANTUM_FRAMES is tried as well)
MaxLength == 2
\* largest small channel count / maxChannelCount / index / adapt argument
MaxChannelArg == 3
\* size of the module's heap in bytes (one WASM page)
HeapBytes == 65536
\* free() may be called this many times
MaxFreeCalls == 3

\* ---- inputs --------------------------------------------------------------
Lengths == (0..MaxLength) \cup {RENDER_QUANTUM_FRAMES}
ChannelCountArgs == (1..MaxChannelArg) \cup {MAX_CHANNEL_COUNT + 1}
\* an optional number: given = FALSE is JavaScript's undefined
Omitted == [given |-> FALSE, value |-> 0]
Given(v) == [given |-> TRUE, value |-> v]
MaxChannelCountArgs ==
  {Omitted} \cup {Given(v) : v \in (0..MaxChannelArg) \cup {MAX_CHANNEL_COUNT, MAX_CHANNEL_COUNT + 8}}
AdaptArgs == (-1..(MaxChannelArg + 1)) \cup {MAX_CHANNEL_COUNT - 1, MAX_CHANNEL_COUNT}
ChannelIndexArgs == {Omitted} \cup {Given(v) : v \in -1..(MaxChannelArg + 1)}
\* offsets the module's allocator may return (8 and 16 aligned, 10 only 2-aligned)
BasePtrs == {8, 10, 16}
\* positions of a sample inside a channel view
SampleArgs == (0..MaxLength) \cup {RENDER_QUANTUM_FRAMES - 1}

\* ---- JavaScript helpers ----------------------------------------------
Min(a, b) == IF a < b THEN a ELSE b
Max(a, b) == IF a > b THEN a ELSE b

\* truthiness of an optional number: undefined and 0 are falsy
Truthy(x) == x.given /\ x.value # 0

RECURSIVE Pow2(_)
Pow2(n) == IF n = 0 THEN 1 ELSE 2 * Pow2(n - 1)

\* x >> n: the arithmetic shift of a 32-bit signed integer, rounding towards
\* minus infinity.  Every offset of the model lies below HeapBytes, far
\* inside the 32-bit range, so ToInt32 leaves the operand as it is.
Sar(x, n) == x \div Pow2(n % 32)

\* number of elements of HEAPF32
HEAPF32Length == HeapBytes \div BYTES_PER_SAMPLE

\* HEAPF32.subarray(begin, end): a view given by its byte offset and its
\* length in elements; relative (negative) indices count from the end and
\* both are clamped to the array
subarray(begin, end) ==
  LET rb == IF begin < 0 THEN Max(HEAPF32Length + begin, 0) ELSE Min(begin, HEAPF32Length)
      re == IF end < 0 THEN Max(HEAPF32Length + end, 0) ELSE Min(end, HEAPF32Length)
  IN [byteOffset |-> rb * BYTES_PER_SAMPLE, length |-> Max(re - rb, 0)]

\* ---- values returned by the methods -------------------------------------
RetVoid == [kind |-> "void", num |-> 0, views |-> << >>]
RetNull == [kind |-> "null", num |-> 0, views |-> << >>]
RetUndefined == [kind |-> "undefined", num |-> 0, views |-> << >>]
RetNumber(n) == [kind |-> "number", num |-> n, views |-> << >>]
RetView(v) == [kind |-> "view", num |-> 0, views |-> <<v>>]
RetViews(vs) == [kind |-> "views", num |-> 0, views |-> vs]

Call(name, hasArg, arg) == [name |-> name, hasArg |-> hasArg, arg |-> arg]

VARIABLES
  _channelCount,     \* private _channelCount
  _channelData,      \* private _channelData: sequence of views
  _dataPtr,          \* private _dataPtr
  _isInitialized,    \* private _isInitialized
  _length,           \* private _length
  _maxChannelCount,  \* private _maxChannelCount
  mallocCalls,       \* byte sizes passed to _module._malloc, in order
  freeCalls,         \* pointers passed to _module._free, in order
  mallocReturns,     \* offsets _module._malloc returned, in order
  args,              \* the constructor's arguments
  call,              \* the last method called
  ret                \* the value it returned

vars == << _channelCount, _channelData, _dataPtr, _isInitialized, _length,
           _maxChannelCount, mallocCalls, freeCalls, mallocReturns, args,
           call, ret >>

fields == << _channelCount, _channelData, _dataPtr, _isInitialized, _length,
             _maxChannelCount >>
owner == << mallocCalls, freeCalls, mallocReturns >>

\* ---- the module's allocator --------------------------------------------
\* what _module._malloc returns when it cannot satisfy the request
NULL == 0

\* _module._malloc(size): some offset with size bytes of heap behind it
_malloc(size) == {p \in BasePtrs : p + size <= HeapBytes}

\* ---- constructor ---------------------------------------------------------
\* the capacity without the Math.min against MAX_CHANNEL_COUNT
ResolveMaxChannelCount_Unclamped(channelCount, maxChannelCount) ==
  IF Truthy(maxChannelCount) THEN maxChannelCount.value ELSE channelCount

\* this._maxChannelCount = maxChannelCount ? Math.min(..) : channelCount
ResolveMaxChannelCount(channelCount, maxChannelCount) ==
  IF Truthy(maxChannelCount)
  THEN Min(maxChannelCount.value, MAX_CHANNEL_COUNT)
  ELSE channelCount

\* _allocateHeap: the byte size requested from _malloc
dataByteSize(length, channelCount) == channelCount * (length * BYTES_PER_SAMPLE)

\* the view of channel i when the byte offsets are halved, as the comment
\* "dividing the byte offset by 2 bytes" has it
ChannelView_DividedByTwo(dataPtr, length, i) ==
  LET channelByteSize == length * BYTES_PER_SAMPLE
      startByteOffset == dataPtr + i * channelByteSize
      endByteOffset == startByteOffset + channelByteSize
  IN subarray(Sar(startByteOffset, 1), Sar(endByteOffset, 1))

\* _allocateHeap: the view of channel i over the allocation at dataPtr
ChannelView(dataPtr, length, i) ==
  LET channelByteSize == length * BYTES_PER_SAMPLE
      startByteOffset == dataPtr + i * channelByteSize
      endByteOffset == startByteOffset + channelByteSize
  IN subarray(Sar(startByteOffset, BYTES_PER_UNIT), Sar(endByteOffset, BYTES_PER_UNIT))

\* the loop run with the bound i <= this._channelCount
AllocateViews_OneMore(dataPtr, length, channelCount) ==
  [i \in 1..(channelCount + 1) |-> ChannelView(dataPtr, length, i - 1)]

\* _allocateHeap: the loop that fills _channelData
AllocateViews(dataPtr, length, channelCount) ==
  [i \in 1..channelCount |-> ChannelView(dataPtr, length, i - 1)]

\* the constructor, with the offset _malloc returned
Constructor(length, channelCount, maxChannelCount, dataPtr) ==
  /\ _length = length
  /\ _maxChannelCount = ResolveMaxChannelCount(channelCount, maxChannelCount)
  /\ _channelCount = channelCount
  /\ _isInitialized = TRUE
  /\ mallocCalls = << dataByteSize(length, channelCount) >>
  /\ mallocReturns = << dataPtr >>
  /\ freeCalls = << >>
  /\ _channelData = AllocateViews(dataPtr, length, channelCount)
  /\ _dataPtr = dataPtr
  /\ args = [length |-> length, channelCount |-> channelCount,
             maxChannelCount |-> maxChannelCount]
  /\ call = Call("constructor", FALSE, 0)
  /\ ret = RetVoid

\* construction when _malloc finds room
InitAllocated ==
  \E length \in Lengths, channelCount \in ChannelCountArgs,
     maxChannelCount \in MaxChannelCountArgs :
    \E dataPtr \in _malloc(dataByteSize(length, channelCount)) :
      Constructor(length, channelCount, maxChannelCount, dataPtr)

\* construction when _malloc cannot satisfy a request for some bytes and
\* returns the null pointer.  (An allocator built to abort instead throws out
\* of the constructor and leaves no instance, hence no state.)
InitAllocationFailed ==
  \E length \in Lengths, channelCount \in ChannelCountArgs,
     maxChannelCount \in MaxChannelCountArgs :
    /\ dataByteSize(length, channelCount) > 0
    /\ Constructor(length, channelCount, maxChannelCount, NULL)

Init == InitAllocated \/ InitAllocationFailed

\* ---- methods -------------------------------------------------------------
\* adaptChannel with the guard newChannelCount <= this._maxChannelCount
adaptChannel_GuardLeq(newChannelCount) ==
  /\ _channelCount' = IF newChannelCount <= _maxChannelCount
                      THEN newChannelCount ELSE _channelCount
  /\ call' = Call("adaptChannel", TRUE, newChannelCount)
  /\ ret' = RetVoid
  /\ UNCHANGED << _channelData, _dataPtr, _isInitialized, _length,
                  _maxChannelCount, owner, args >>

\* adaptChannel without the guard
adaptChannel_NoGuard(newChannelCount) ==
  /\ _channelCount' = newChannelCount
  /\ call' = Call("adaptChannel", TRUE, newChannelCount)
  /\ ret' = RetVoid
  /\ UNCHANGED << _channelData, _dataPtr, _isInitialized, _length,
                  _maxChannelCount, owner, args >>

\* adaptChannel that rebuilds the channel views for the new count
adaptChannel_RebuildsViews(newChannelCount) ==
  /\ _channelCount' = IF newChannelCount < _maxChannelCount
                      THEN newChannelCount ELSE _channelCount
  /\ _channelData' = AllocateViews(_dataPtr, _length, _channelCount')
  /\ call' = Call("adaptChannel", TRUE, newChannelCount)
  /\ ret' = RetVoid
  /\ UNCHANGED << _dataPtr, _isInitialized, _length, _maxChannelCount,
                  owner, args >>

adaptChannel(newChannelCount) ==
  /\ _channelCount' = IF newChannelCount < _maxChannelCount
                      THEN newChannelCount ELSE _channelCount
  /\ call' = Call("adaptChannel", TRUE, newChannelCount)
  /\ ret' = RetVoid
  /\ UNCHANGED << _channelData, _dataPtr, _isInitialized, _length,
                  _maxChannelCount, owner, args >>

length == IF _isInitialized THEN RetNumber(_length) ELSE RetNull

\* the getter without the _isInitialized test
numberOfChannels_Unguarded == RetNumber(_channelCount)

numberOfChannels == IF _isInitialized THEN RetNumber(_channelCount) ELSE RetNull

maxChannelCount == IF _isInitialized THEN RetNumber(_maxChannelCount) ELSE RetNull

getChannelData(channelIndex) ==
  IF Truthy(channelIndex) /\ channelIndex.value >= _channelCount
  THEN RetUndefined
  ELSE IF ~channelIndex.given
       THEN RetViews(_channelData)
       ELSE IF channelIndex.value + 1 \in DOMAIN _channelData
            THEN RetView(_channelData[channelIndex.value + 1])
            ELSE RetUndefined

getHeapAddress == RetNumber(_dataPtr)

\* getPointer returning the HEAPF32 index instead of the byte offset
getPointer_ArrayIndex == RetNumber(Sar(_dataPtr, BYTES_PER_UNIT))

getPointer == RetNumber(_dataPtr)

\* a call that only returns a value
Query(name, hasArg, arg, value) ==
  /\ call' = Call(name, hasArg, arg)
  /\ ret' = value
  /\ UNCHANGED << fields, owner, args >>

\* byte offset in the module's memory of element k of a Float32Array view
ElementByteOffset(view, k) == view.byteOffset + k * BYTES_PER_SAMPLE

\* the caller stores a sample at position k of getChannelData(0); the value
\* returned is the byte offset of the module's memory the sample lands on
storeSample(k) ==
  LET r == getChannelData(Given(0))
  IN /\ r.kind = "view"
     /\ k < r.views[1].length
     /\ Query("storeSample", TRUE, k, RetNumber(ElementByteOffset(r.views[1], k)))

\* free that forgets to clear _channelData
free_KeepsViews ==
  /\ Len(freeCalls) < MaxFreeCalls
  /\ _isInitialized' = FALSE
  /\ freeCalls' = Append(freeCalls, _dataPtr)
  /\ call' = Call("free", FALSE, 0)
  /\ ret' = RetVoid
  /\ UNCHANGED << _channelCount, _channelData, _dataPtr, _length,
                  _maxChannelCount, mallocCalls, mallocReturns, args >>

\* free that forgets to clear _isInitialized
free_KeepsInitialized ==
  /\ Len(freeCalls) < MaxFreeCalls
  /\ freeCalls' = Append(freeCalls, _dataPtr)
  /\ _channelData' = << >>
  /\ call' = Call("free", FALSE, 0)
  /\ ret' = RetVoid
  /\ UNCHANGED << _channelCount, _dataPtr, _isInitialized, _length,
                  _maxChannelCount, mallocCalls, mallocReturns, args >>

free ==
  /\ Len(freeCalls) < MaxFreeCalls
  /\ _isInitialized' = FALSE
  /\ freeCalls' = Append(freeCalls, _dataPtr)
  /\ _channelData' = << >>
  /\ call' = Call("free", FALSE, 0)
  /\ ret' = RetVoid
  /\ UNCHANGED << _channelCount, _dataPtr, _length, _maxChannelCount,
                  mallocCalls, mallocReturns, args >>

AdaptChannel == \E n \in AdaptArgs : adaptChannel(n)
GetLength == Query("length", FALSE, 0, length)
GetNumberOfChannels == Query("numberOfChannels", FALSE, 0, numberOfChannels)
GetMaxChannelCount == Query("maxChannelCount", FALSE, 0, maxChannelCount)
GetChannelData ==
  \E i \in ChannelIndexArgs : Query("getChannelData", i.given, i.value, getChannelData(i))
GetHeapAddress == Query("getHeapAddress", FALSE, 0, getHeapAddress)
GetPointer == Query("getPointer", FALSE, 0, getPointer)
StoreSample == \E k \in SampleArgs : storeSample(k)
Free == free

Next ==
  \/ AdaptChannel
  \/ GetLength
  \/ GetNumberOfChannels
  \/ GetMaxChannelCount
  \/ GetChannelData
  \/ GetHeapAddress
  \/ GetPointer
  \/ StoreSample
  \/ Free

Spec == Init /\ [][Next]_vars

\* ---- vocabulary of the properties ---------------------------------------
\* the step is a call of the named method
Calls(name) == call'.name = name
Called(name) == call.name = name
\* free has been called
Released == Len(freeCalls) > 0
\* first byte after a view
ViewEnd(v) == v.byteOffset + v.length * BYTES_PER_SAMPLE
RECURSIVE ViewBytesSum(_)
ViewBytesSum(vs) ==
  IF vs = << >> THEN 0
  ELSE Head(vs).length * BYTES_PER_SAMPLE + ViewBytesSum(Tail(vs))

\* the constructor's arguments are as its comment requires: channelCount is
\* greater than 0 and at most the maximum channel count, which is at most 32
DocumentedArgs ==
  LET capacity == ResolveMaxChannelCount(args.channelCount, args.maxChannelCount)
  IN 0 < args.channelCount /\ args.channelCount <= capacity
       /\ capacity <= MAX_CHANNEL_COUNT

\* C1: after any sequence of adaptChannel calls on an instance constructed
\* as the constructor requires, while the instance is initialized,
\* 0 < active channel count <= channel capacity <= 32.
C1_ChannelCountWithinCapacity ==
  (DocumentedArgs /\ _isInitialized) =>
    /\ 0 < _channelCount
    /\ _channelCount <= _maxChannelCount
    /\ _maxChannelCount <= MAX_CHANNEL_COUNT

\* C2: the owner's allocate is called exactly once and, once free has been
\* called (any number of times), the owner's release has been called exactly
\* once.
C2_OneAllocateOneRelease ==
  /\ Len(mallocCalls) = 1
  /\ ~_isInitialized => Len(freeCalls) = 1

\* C3: for an instance constructed as the constructor requires, the one
\* byte size ever requested from the owner's allocate is
\* channelCapacity * frameLength * 4.
C3_AllocatesCapacityBytes ==
  DocumentedArgs => mallocCalls = << _maxChannelCount * _length * 4 >>

\* C4: for an instance constructed as the constructor requires, while
\* initialized, the sequence of views the instance holds, and the one
\* getChannelData() returns, has length channelCapacity.
C4_ViewsLengthIsCapacity ==
  (DocumentedArgs /\ _isInitialized) =>
    /\ Len(_channelData) = _maxChannelCount
    /\ (Called("getChannelData") /\ ~call.hasArg) =>
         (ret.kind = "views" /\ Len(ret.views) = _maxChannelCount)

\* C5: while initialized, getChannelData(index) returns a view when
\* 0 <= index < active channel count and no value when
\* index >= active channel count.
C5_IndexedViewIffActive ==
  (_isInitialized /\ Called("getChannelData") /\ call.hasArg) =>
    /\ (0 <= call.arg /\ call.arg < _channelCount) => ret.kind = "view"
    /\ call.arg >= _channelCount => ret.kind = "undefined"

\* C6: adaptChannel(n) on an initialized instance sets the active channel
\* count to n when n < channelCapacity, leaves it as it was when
\* n >= channelCapacity, and returns normally either way.
C6_AdaptSetsBelowCapacityElseKeeps ==
  [][(Calls("adaptChannel") /\ _isInitialized) =>
       /\ call'.arg < _maxChannelCount => _channelCount' = call'.arg
       /\ call'.arg >= _maxChannelCount => _channelCount' = _channelCount
       /\ ret' = RetVoid]_vars

\* C6 witness: an initialized instance whose count an adaptChannel(n) call
\* with n < channelCapacity has just set to n, away from the constructed count.
C6_Witness ==
  /\ _isInitialized
  /\ Called("adaptChannel")
  /\ call.arg < _maxChannelCount
  /\ _channelCount = call.arg
  /\ _channelCount # args.channelCount

C8_GettersValueThenNull ==
  /\ Called("length") =>
       ret = IF Released THEN RetNull ELSE RetNumber(args.length)
  /\ Called("numberOfChannels") =>
       ret = IF Released THEN RetNull ELSE RetNumber(_channelCount)
  /\ Called("maxChannelCount") =>
       ret = IF Released THEN RetNull
             ELSE RetNumber(ResolveMaxChannelCount(args.channelCount, args.maxChannelCount))

\* C8 witness: numberOfChannels read after free, returning null, on an
\* instance whose count was adapted.
C8_Witness ==
  /\ Released
  /\ Called("numberOfChannels")
  /\ ret = RetNull
  /\ _channelCount # args.channelCount

\* C9: after free, adaptChannel changes no field of the instance and
\* getHeapAddress / getPointer do not return the freed base offset.
C9_NoUseAfterFree ==
  [][/\ (Calls("adaptChannel") /\ ~_isInitialized) => UNCHANGED fields
     /\ ((Calls("getHeapAddress") \/ Calls("getPointer")) /\ ~_isInitialized) =>
          ret' # RetNumber(_dataPtr)]_vars

\* C10: for an instance constructed as the constructor requires, the views
\* built at construction are pairwise disjoint, contiguous in channel order,
\* there is one for every channel below channelCapacity, and together they
\* cover exactly channelCapacity * frameLength * 4 bytes.
C10_ViewsPartitionCapacity ==
  (DocumentedArgs /\ _isInitialized) =>
    /\ \A i \in 0..(_maxChannelCount - 1) : i + 1 \in DOMAIN _channelData
    /\ \A i, j \in DOMAIN _channelData :
         i < j => ViewEnd(_channelData[i]) <= _channelData[j].byteOffset
    /\ \A i \in DOMAIN _channelData :
         i + 1 \in DOMAIN _channelData =>
           _channelData[i + 1].byteOffset = ViewEnd(_channelData[i])
    /\ ViewBytesSum(_channelData) = _maxChannelCount * _length * 4

\* the offset the owner's allocate returned at construction
BaseOffset == mallocReturns[1]
\* every view the instance holds is the window of frameLength floats over
\* bytes [base + i*frameLength*4, base + (i+1)*frameLength*4); a window of
\* no floats covers no byte wherever it starts
ViewsAreWindows(base) ==
  \A i \in DOMAIN _channelData :
    /\ _channelData[i].length = _length
    /\ _length > 0 => _channelData[i].byteOffset = base + (i - 1) * _length * 4
\* a sample stored through view 0 at position k lands on byte base + 4*k
StoreLandsAt(base) ==
  Called("storeSample") => ret = RetNumber(base + 4 * call.arg)

InitialActiveIsChannelCount ==
  Called("constructor") => _channelCount = args.channelCount

\* C12 (as claimed): if maxChannelCount is given, channelCapacity is
\* min(maxChannelCount, 32), otherwise it is channelCount; in both cases the
\* initial active channel count is channelCount.
C12_CapacityResolution ==
  /\ _maxChannelCount =
       IF args.maxChannelCount.given
       THEN Min(args.maxChannelCount.value, 32)
       ELSE args.channelCount
  /\ InitialActiveIsChannelCount

\* C12 (amended): if maxChannelCount is given and is not 0, channelCapacity is
\* min(maxChannelCount, 32); if it is omitted or 0, channelCapacity is
\* channelCount; in both cases the initial active channel count is
\* channelCount.
C12_CapacityResolutionNonZero ==
  /\ _maxChannelCount =
       IF args.maxChannelCount.given /\ args.maxChannelCount.value # 0
       THEN Min(args.maxChannelCount.value, 32)
       ELSE args.channelCount
  /\ InitialActiveIsChannelCount

\* C12 witness: channelCount 2 with maxChannelCount 40 has just been
\* constructed with capacity 32 and active count 2.
C12_Witness ==
  /\ Called("constructor")
  /\ args.channelCount = 2
  /\ args.maxChannelCount = Given(40)
  /\ _maxChannelCount = 32
  /\ _channelCount = 2

\* C13: when the owner's allocate signals failure, construction produces no
\* instance that reports itself initialized and exposes a base offset or
\* channel views.
C13_FailedAllocationFailsConstruction ==
  (Called("constructor") /\ BaseOffset = NULL) =>
    (~_isInitialized /\ _channelData = << >>)

\* C14: initialized is true from construction until the first free; once
\* free has been called, initialized is false and the view sequence is
\* empty in every later state, whatever is called next.
C14_LifecycleIrreversible ==
  /\ [](_isInitialized = ~Released)
  /\ [](Released => (~_isInitialized /\ _channelData = << >>))
  /\ [][~_isInitialized => (~_isInitialized' /\ _channelData' = << >>)]_vars

\* C14 witness: after free, adaptChannel has changed the count, and the
\* instance is still released with no views.
C14_Witness ==
  /\ Released
  /\ Called("adaptChannel")
  /\ _channelCount = call.arg
  /\ _channelCount # args.channelCount
  /\ ~_isInitialized
  /\ _channelData = << >>

\* C15: while initialized, getHeapAddress() and getPointer() return the
\* same value, the offset the owner's allocate returned at construction,
\* whatever adaptChannel calls were made.
C15_AddressIsAllocatedOffset ==
  _isInitialized =>
    /\ getHeapAddress = getPointer
    /\ (Called("getHeapAddress") \/ Called("getPointer")) =>
         ret = RetNumber(BaseOffset)

\* C15 witness: getPointer returns the allocated offset after adaptChannel
\* has changed the count.
C15_Witness ==
  /\ _isInitialized
  /\ Called("getPointer")
  /\ BaseOffset # NULL
  /\ ret = RetNumber(BaseOffset)
  /\ _channelCount # args.channelCount

\* C16: adaptChannel(n) makes no call to the owner and changes at most the
\* active channel count: frame length, channel capacity, base offset, the
\* view sequence and the initialized flag stay as they are.
C16_AdaptChangesOnlyCount ==
  [][Calls("adaptChannel") =>
       UNCHANGED << _length, _maxChannelCount, _dataPtr, _channelData,
                    _isInitialized, mallocCalls, mallocReturns, freeCalls >>]_vars

\* C16 witness: adaptChannel has lowered the count of an initialized
\* instance, which still holds every view built at construction and has made
\* the one allocate call.
C16_Witness ==
  /\ _isInitialized
  /\ Called("adaptChannel")
  /\ _channelCount < args.channelCount
  /\ _channelCount >= 0
  /\ Len(_channelData) = args.channelCount
  /\ Len(mallocCalls) = 1
  /\ freeCalls = << >>

\* C17: for a base offset that is a multiple of 4, every view getChannelData
\* returns (indexed or not), after any adaptChannel calls, lies inside the
\* bytes [baseOffset, baseOffset + size requested from allocate).
C17_ReturnedViewsInsideAllocation ==
  (BaseOffset % BYTES_PER_SAMPLE = 0 /\ Called("getChannelData")) =>
    \A i \in DOMAIN ret.views :
      /\ BaseOffset <= ret.views[i].byteOffset
      /\ ViewEnd(ret.views[i]) <= BaseOffset + mallocCalls[1]

\* C17 witness: getChannelData(index) with index >= 1 returns a view of at
\* least one float after adaptChannel has changed the count.
C17_Witness ==
  /\ Called("getChannelData")
  /\ call.hasArg
  /\ call.arg >= 1
  /\ ret.kind = "view"
  /\ ret.views[1].length >= 1
  /\ BaseOffset # NULL
  /\ BaseOffset % BYTES_PER_SAMPLE = 0
  /\ _channelCount # args.channelCount

\* C18: after free, getChannelData() returns an empty sequence and
\* getChannelData(index) returns no value for every index, whatever the
\* active channel count and whatever adaptChannel calls followed the free.
C18_NoViewAfterFree ==
  (Released /\ Called("getChannelData")) =>
    ret = IF call.hasArg THEN RetUndefined ELSE RetViews(<< >>)

\* C18 witness: after free, getChannelData(0) returns no value although the
\* active channel count, changed since construction, is above 0.
C18_Witness ==
  /\ Released
  /\ Called("getChannelData")
  /\ call.hasArg
  /\ call.arg = 0
  /\ ret = RetUndefined
  /\ _channelCount > 0
  /\ _channelCount # args.channelCount

\* C19: an adaptChannel call that changes the active channel count leaves it
\* strictly below channelCapacity, and it stays strictly below in every
\* later state; so when maxChannelCount was omitted, a count that differs
\* from the constructed channelCount is below it and cannot come back to it.
C19_ChangedCountStaysBelowCapacity ==
  [][/\ (_channelCount' # _channelCount \/ _channelCount < _maxChannelCount)
          => _channelCount' < _maxChannelCount'
     /\ (~args.maxChannelCount.given /\ _channelCount # args.channelCount)
          => (_channelCount' < args.channelCount /\ _channelCount < args.channelCount)]_vars

\* C19 witness: maxChannelCount omitted, the count was lowered, and a later
\* adaptChannel(n) with n at least the constructed channelCount has left it
\* below the constructed channelCount.
C19_Witness ==
  /\ ~args.maxChannelCount.given
  /\ Called("adaptChannel")
  /\ call.arg >= args.channelCount
  /\ _channelCount < args.channelCount

====
